---- MODULE Spec2Model ----
(***************************************************************************)
(* fpl::intrusive_list_node and fpl::intrusive_list<T, node_member>        *)
(* (libfplutil/include/fplutil/intrusive_list.h) as a state machine.       *)
(*                                                                         *)
(* Memory is a heap of link fields addressed by integers.  An object of    *)
(* type T lives at an address; its embedded intrusive_list_node lives      *)
(* offset_of_node bytes further.  A list lives at an address and its       *)
(* header node data_ is its first member.  Every operation of the header   *)
(* file is an operator from heaps to heaps that performs the pointer       *)
(* assignments of the source one after the other, and an action that       *)
(* applies it to the current heap.                                         *)
(***************************************************************************)
EXTENDS Integers, Sequences, FiniteSets, TLC

\* Bounds of the model.
NumObjects == 3
NumLists == 2
MaxVal == 2

\* Addresses of the objects of type T and of the list containers.
Objects == {16 * i : i \in 1..NumObjects}
Lists == {100 * i : i \in 1..NumLists}
Values == 1..MaxVal

\* Byte offset of the member node_member within T
\* (struct ExampleStruct { int value; intrusive_list_node node; }).
offset_of_node == 8

\* &(value.*node_member)
node_from_object(value) == value + offset_of_node

\* The object that owns the node: the node's address minus the offset.
object_from_node(node) == node - offset_of_node

\* One header shared by all lists, as a static member would be: the list
\* at the lowest address holds it.
data_shared(l) == CHOOSE m \in Lists : \A k \in Lists : m <= k

\* &data_ of the list at address l.
data_(l) == l

ObjectNodes == {node_from_object(o) : o \in Objects}
HeaderNodes == {data_(l) : l \in Lists}
Nodes == ObjectNodes \cup HeaderNodes

VARIABLES
  heap,      \* [next_ : Nodes -> Nodes, previous_ : Nodes -> Nodes]
  alive,     \* the nodes whose lifetime has begun and not ended
  val,       \* the member `value` of each object
  op,        \* the last call made: its name and arguments
  pre,       \* heap and alive as they were when that call was made
  deque,     \* per list, the abstract double-ended sequence of push/pop
  net,       \* per list, the number of pushes minus the number of pops
  onlyBack   \* per list, whether it was built by push_back calls alone

vars == <<heap, alive, val, op, pre, deque, net, onlyBack>>

----------------------------------------------------------------------------
(* intrusive_list_node *)

\* intrusive_list_node() : next_(this), previous_(this) {}
node_construct(h, n) ==
  [next_ |-> [h.next_ EXCEPT ![n] = n],
   previous_ |-> [h.previous_ EXCEPT ![n] = n]]

\* bool in_list() const { return next_ != this; }
in_list(h, n) == h.next_[n] # n

\* clear() that forgets next_ = this.
node_clear_previous_only(h, n) == [h EXCEPT !.previous_[n] = n]

\* inline void clear() { next_ = this; previous_ = this; }
node_clear(h, n) ==
  LET h1 == [h EXCEPT !.next_[n] = n]
  IN [h1 EXCEPT !.previous_[n] = n]

\* The first two statements of remove() and of the move assignment:
\*   next_->previous_ = previous_;  previous_->next_ = next_;
node_unlink(h, n) ==
  LET h1 == [h EXCEPT !.previous_[h.next_[n]] = h.previous_[n]]
  IN [h1 EXCEPT !.next_[h1.previous_[n]] = h1.next_[n]]

\* remove() that forgets to close the chain behind the node.
node_remove_no_unlink(h, n) ==
  LET h1 == [h EXCEPT !.next_[n] = n]
  IN [h1 EXCEPT !.previous_[n] = n]

\* intrusive_list_node* remove()
node_remove(h, n) == node_clear(node_unlink(h, n), n)

\* insert_before() that forgets node->previous_ = previous_.
node_insert_before_no_back_link(h, self, node) ==
  LET h1 == [h EXCEPT !.next_[h.previous_[self]] = node]
      h3 == [h1 EXCEPT !.next_[node] = self]
  IN [h3 EXCEPT !.previous_[self] = node]

\* inline void insert_before(intrusive_list_node* node), called on `self`.
node_insert_before(h, self, node) ==
  LET h1 == [h EXCEPT !.next_[h.previous_[self]] = node]
      h2 == [h1 EXCEPT !.previous_[node] = h1.previous_[self]]
      h3 == [h2 EXCEPT !.next_[node] = self]
  IN [h3 EXCEPT !.previous_[self] = node]

\* inline void insert_after(intrusive_list_node* node), called on `self`.
node_insert_after(h, self, node) ==
  LET h1 == [h EXCEPT !.previous_[h.next_[self]] = node]
      h2 == [h1 EXCEPT !.next_[node] = h1.next_[self]]
      h3 == [h2 EXCEPT !.previous_[node] = self]
  IN [h3 EXCEPT !.next_[self] = node]

\* A move() that leaves other as it was.
node_move_keeps_other(h, self, other) ==
  IF in_list(h, other)
  THEN LET h1 == [h EXCEPT !.next_[self] = h.next_[other]]
           h2 == [h1 EXCEPT !.previous_[self] = h1.previous_[other]]
           h3 == [h2 EXCEPT !.previous_[h2.next_[other]] = self]
       IN [h3 EXCEPT !.next_[h3.previous_[other]] = self]
  ELSE LET h1 == [h EXCEPT !.next_[self] = self]
       IN [h1 EXCEPT !.previous_[self] = self]

\* inline void move(intrusive_list_node& other), called on `self`.
node_move(h, self, other) ==
  IF in_list(h, other)
  THEN LET h1 == [h EXCEPT !.next_[self] = h.next_[other]]
           h2 == [h1 EXCEPT !.previous_[self] = h1.previous_[other]]
           h3 == [h2 EXCEPT !.previous_[h2.next_[other]] = self]
           h4 == [h3 EXCEPT !.next_[h3.previous_[other]] = self]
       IN node_clear(h4, other)
  ELSE LET h1 == [h EXCEPT !.next_[self] = self]
       IN [h1 EXCEPT !.previous_[self] = self]

\* A move assignment that does not take self out of its chain first.
node_move_assign_no_unlink(h, self, other) == node_move(h, self, other)

\* intrusive_list_node(intrusive_list_node&& other)
node_move_construct(h, self, other) == node_move(h, self, other)

\* intrusive_list_node& operator=(intrusive_list_node&& other)
node_move_assign(h, self, other) == node_move(node_unlink(h, self), self, other)

----------------------------------------------------------------------------
(* intrusive_list_iterator and the observers of intrusive_list *)

\* Longest walk a well-formed chain can need; a walk that takes more steps
\* never comes back to where it is meant to stop.
MaxSteps == Cardinality(Nodes) + 1

\* iterator begin() { return iterator(data_.next_); }
begin(h, l) == h.next_[data_(l)]

\* iterator end() { return iterator(&data_); }
end(l) == data_(l)

\* operator++ : value_ = value_->next_
iter_next(h, it) == h.next_[it]

\* operator-- : value_ = value_->previous_
iter_prev(h, it) == h.previous_[it]

\* operator* : *object_from_node(value_)
deref(it) == object_from_node(it)

\* for (it = first; it != last; ++it) visit(*it): the objects visited, and
\* whether the loop ended within MaxSteps increments.
RECURSIVE range_loop(_, _, _, _, _)
range_loop(h, it, last, seen, fuel) ==
  IF it = last THEN [objs |-> seen, done |-> TRUE]
  ELSE IF fuel = 0 THEN [objs |-> seen, done |-> FALSE]
  ELSE range_loop(h, iter_next(h, it), last, Append(seen, deref(it)), fuel - 1)

\* Iteration from begin() to end().
forward(h, l) == range_loop(h, begin(h, l), end(l), <<>>, MaxSteps)

\* Iteration from rbegin() to rend() with std::reverse_iterator: the base
\* starts at end(), stops at begin(), and dereferencing yields *prev(base).
RECURSIVE reverse_loop(_, _, _, _, _)
reverse_loop(h, base, stop, seen, fuel) ==
  IF base = stop THEN [objs |-> seen, done |-> TRUE]
  ELSE IF fuel = 0 THEN [objs |-> seen, done |-> FALSE]
  ELSE reverse_loop(h, iter_prev(h, base), stop,
                    Append(seen, deref(iter_prev(h, base))), fuel - 1)

backward(h, l) == reverse_loop(h, end(l), begin(h, l), <<>>, MaxSteps)

\* bool empty() const { return !data_.in_list(); }
empty(h, l) == ~in_list(h, data_(l))

\* size_type size() const { return std::distance(cbegin(), cend()); }
size(h, l) == Len(forward(h, l).objs)

\* reference front() { return *object_from_node(data_.next_); }
front(h, l) == object_from_node(h.next_[data_(l)])

\* reference back() { return *object_from_node(data_.previous_); }
back(h, l) == object_from_node(h.previous_[data_(l)])

----------------------------------------------------------------------------
(* intrusive_list: modifiers *)

\* intrusive_list() : data_(&data_, &data_) {}
list_construct(h, l) ==
  [next_ |-> [h.next_ EXCEPT ![data_(l)] = data_(l)],
   previous_ |-> [h.previous_ EXCEPT ![data_(l)] = data_(l)]]

\* push_front() that links the value before the header instead of after it.
push_front_at_back(h, l, value) ==
  node_insert_before(h, data_(l), node_from_object(value))

\* void push_front(reference value)
push_front(h, l, value) == node_insert_after(h, data_(l), node_from_object(value))

\* void pop_front() { data_.next_->remove(); }
pop_front(h, l) == node_remove(h, h.next_[data_(l)])

\* push_back() that links the value after the header instead of before it.
push_back_at_front(h, l, value) ==
  node_insert_after(h, data_(l), node_from_object(value))

\* void push_back(reference value)
push_back(h, l, value) == node_insert_before(h, data_(l), node_from_object(value))

\* void pop_back() { data_.previous_->remove(); }
pop_back(h, l) == node_remove(h, h.previous_[data_(l)])

\* The loop of clear(): current = iter++; node_from_object(*current)->clear();
RECURSIVE clear_loop(_, _, _, _)
clear_loop(h, it, last, fuel) ==
  IF it = last \/ fuel = 0 THEN h
  ELSE clear_loop(node_clear(h, node_from_object(deref(it))),
                  iter_next(h, it), last, fuel - 1)

\* A clear() that resets the header and leaves the elements as they are.
clear_header_only(h, l) == node_clear(h, data_(l))

\* void clear()
clear(h, l) == node_clear(clear_loop(h, begin(h, l), end(l), MaxSteps), data_(l))

\* static void insert_before(reference value, reference other)
insert_before(h, value, other) ==
  node_insert_before(h, node_from_object(value), node_from_object(other))

\* static void insert_after(reference value, reference other)
static_insert_after(h, value, other) ==
  node_insert_after(h, node_from_object(value), node_from_object(other))

\* An insert() that links value behind pos.
insert_behind(h, pos, value) == static_insert_after(h, deref(pos), value)

\* iterator insert(iterator pos, reference value): insert_before(*pos, value)
insert(h, pos, value) == insert_before(h, deref(pos), value)

\* iterator insert_after(iterator pos, reference value): insert_after(*pos, value)
insert_after(h, pos, value) == static_insert_after(h, deref(pos), value)

\* The iterator insert(pos, value) and insert_after(pos, value) return:
\*   return iterator(node_from_object(value));
inserted(value) == node_from_object(value)

\* The loop of insert(pos, first, last) over the objects the input range
\* yields: for (InputIt iter = first; iter != last; ++iter) insert(pos, *iter);
RECURSIVE insert_loop(_, _, _)
insert_loop(h, pos, input) ==
  IF input = <<>> THEN h
  ELSE insert_loop(insert(h, pos, Head(input)), pos, Tail(input))

\* iterator insert(iterator pos, InputIt first, InputIt last)
insert_range(h, pos, input) ==
  LET return_value == pos
  IN [heap |-> insert_loop(h, pos, input), result |-> return_value]

\* iterator erase(iterator pos); the iterator's node_ is its value_ member.
erase(h, pos) == node_remove(h, pos)

\* The loop of erase(first, last):
\*   while (iter != last) { iterator current = iter++; current.node_->clear(); }
RECURSIVE erase_loop(_, _, _, _)
erase_loop(h, iter, last, fuel) ==
  IF iter = last THEN [heap |-> h, done |-> TRUE, result |-> iter]
  ELSE IF fuel = 0 THEN [heap |-> h, done |-> FALSE, result |-> iter]
  ELSE erase_loop(node_clear(h, iter), iter_next(h, iter), last, fuel - 1)

\* iterator erase(iterator first, iterator last)
erase_range(h, first, last) ==
  LET before_first == h.previous_[first]
      after_last == h.next_[last]
      h1 == [h EXCEPT !.previous_[after_last] = before_first]
      h2 == [h1 EXCEPT !.next_[before_first] = after_last]
  IN erase_loop(h2, first, last, MaxSteps)

\* std::swap on two next_ fields, and on two previous_ fields.
swap_next(h, p, q) ==
  [h EXCEPT !.next_ = [h.next_ EXCEPT ![p] = h.next_[q], ![q] = h.next_[p]]]

swap_previous(h, p, q) ==
  [h EXCEPT !.previous_ =
     [h.previous_ EXCEPT ![p] = h.previous_[q], ![q] = h.previous_[p]]]

\* void swap(this_type& other)
swap(h, l, other) ==
  LET h1 == swap_next(h, data_(l), data_(other))
      h2 == swap_previous(h1, data_(l), data_(other))
      h3 == swap_previous(h2, h2.next_[data_(l)], h2.next_[data_(other)])
  IN swap_next(h3, h3.previous_[data_(l)], h3.previous_[data_(other)])

\* static reference remove(reference value)
remove(h, value) == node_remove(h, node_from_object(value))

\* intrusive_list& operator=(this_type&& other): data_ = std::move(other.data_)
list_move_assign(h, l, other) == node_move_assign(h, data_(l), data_(other))

\* intrusive_list(this_type&& other) { *this = std::move(other); }
\* data_ is default-constructed first, being absent from the initializer list.
list_move_construct(h, l, other) ==
  list_move_assign(node_construct(h, data_(l)), l, other)

\* A destructor that leaves the links of data_ as they are.
list_destroy_trivial(h, l) == h

\* ~intrusive_list(): the member data_ is destroyed, ~intrusive_list_node().
list_destroy(h, l) == node_remove(h, data_(l))

\* void splice(iterator pos, iterator first, iterator last)
splice_range(h, pos, first, last) ==
  IF first = last THEN h
  ELSE LET before_pos_node == h.previous_[pos]
           before_first_node == h.previous_[first]
           before_last_node == h.previous_[last]
           h1 == [h EXCEPT !.next_[before_pos_node] = first]
           h2 == [h1 EXCEPT !.next_[before_first_node] = last]
           h3 == [h2 EXCEPT !.next_[before_last_node] = pos]
           h4 == [h3 EXCEPT !.previous_[pos] = before_last_node]
           h5 == [h4 EXCEPT !.previous_[first] = before_pos_node]
       IN [h5 EXCEPT !.previous_[last] = before_first_node]

\* void splice(iterator pos, reference other) { insert(pos, remove(other)); }
splice_object(h, pos, other) == insert(remove(h, other), pos, other)

\* void splice(iterator pos, this_type& other)
splice_list(h, pos, other) == splice_range(h, pos, begin(h, other), end(other))

\* void splice(iterator pos, iterator iter)
splice_iterator(h, pos, iter) == splice_range(h, pos, iter, iter_next(h, iter))

\* std::less<value_type> on objects ordered by their member `value`.
compare(a, b) == val[a] < val[b]

\* std::equal_to<value_type>
equal_to(a, b) == val[a] = val[b]

\* The loop of merge(); done is FALSE when it is still running after more
\* steps than two well-formed chains allow.
RECURSIVE merge_loop(_, _, _, _, _, _)
merge_loop(h, l, other, this_iter, other_iter, fuel) ==
  IF fuel = 0 THEN [heap |-> h, done |-> FALSE]
  ELSE IF this_iter = end(l)
  THEN [heap |-> splice_range(h, end(l), other_iter, end(other)), done |-> TRUE]
  ELSE IF other_iter = end(other) THEN [heap |-> h, done |-> TRUE]
  ELSE IF compare(deref(this_iter), deref(other_iter))
  THEN merge_loop(h, l, other, iter_next(h, this_iter), other_iter, fuel - 1)
  ELSE LET to_be_removed == other_iter
       IN merge_loop(insert(remove(h, deref(to_be_removed)), this_iter,
                            deref(to_be_removed)),
                     l, other, this_iter, iter_next(h, other_iter), fuel - 1)

\* merge() that moves other behind this without comparing anything.
merge_appends(h, l, other) ==
  merge_loop(h, l, other, end(l), begin(h, other), 2 * MaxSteps)

\* void merge(this_type& other, Compare compare)
merge(h, l, other) ==
  merge_loop(h, l, other, begin(h, l), begin(h, other), 2 * MaxSteps)

\* A loop of unique() that steps forward after every removal as well.
RECURSIVE unique_loop_steps_on(_, _, _, _)
unique_loop_steps_on(h, l, iter, fuel) ==
  IF iter = iter_prev(h, end(l)) THEN [heap |-> h, done |-> TRUE]
  ELSE IF fuel = 0 THEN [heap |-> h, done |-> FALSE]
  ELSE LET next_iter == iter_next(h, iter)
           h1 == IF equal_to(deref(iter), deref(next_iter))
                 THEN remove(h, deref(next_iter)) ELSE h
       IN IF iter_next(h1, iter) = end(l) THEN [heap |-> h1, done |-> TRUE]
          ELSE unique_loop_steps_on(h1, l, iter_next(h1, iter), fuel - 1)

\* The loop of unique().
RECURSIVE unique_loop(_, _, _, _)
unique_loop(h, l, iter, fuel) ==
  IF iter = iter_prev(h, end(l)) THEN [heap |-> h, done |-> TRUE]
  ELSE IF fuel = 0 THEN [heap |-> h, done |-> FALSE]
  ELSE LET next_iter == iter_next(h, iter)
       IN IF equal_to(deref(iter), deref(next_iter))
          THEN unique_loop(remove(h, deref(next_iter)), l, iter, fuel - 1)
          ELSE unique_loop(h, l, iter_next(h, iter), fuel - 1)

\* void unique(BinaryPredicate pred)
unique(h, l) ==
  IF empty(h, l) THEN [heap |-> h, done |-> TRUE]
  ELSE unique_loop(h, l, begin(h, l), MaxSteps)

\* An inner loop of sort() that also walks past the elements equal to *i.
RECURSIVE sort_scan_past_equal(_, _, _, _, _)
sort_scan_past_equal(h, l, i, j, fuel) ==
  IF fuel = 0 THEN j
  ELSE IF j # begin(h, l) /\ ~compare(deref(iter_prev(h, j)), deref(i))
  THEN sort_scan_past_equal(h, l, i, iter_prev(h, j), fuel - 1)
  ELSE j

\* The inner loop of sort():
\*   while (j != begin() && compare(*i, *std::prev(j))) --j;
RECURSIVE sort_scan(_, _, _, _, _)
sort_scan(h, l, i, j, fuel) ==
  IF fuel = 0 THEN j
  ELSE IF j # begin(h, l) /\ compare(deref(i), deref(iter_prev(h, j)))
  THEN sort_scan(h, l, i, iter_prev(h, j), fuel - 1)
  ELSE j

\* The outer loop of sort(): for (i = begin(); i != end(); i = next).
RECURSIVE sort_loop(_, _, _, _)
sort_loop(h, l, i, fuel) ==
  IF i = end(l) THEN [heap |-> h, done |-> TRUE]
  ELSE IF fuel = 0 THEN [heap |-> h, done |-> FALSE]
  ELSE LET next == iter_next(h, i)
           j == sort_scan(h, l, i, i, MaxSteps)
           h1 == IF i # j THEN insert(remove(h, deref(i)), j, deref(i)) ELSE h
       IN sort_loop(h1, l, next, fuel - 1)

\* void sort(Compare compare)
sort(h, l) == sort_loop(h, l, begin(h, l), MaxSteps)

----------------------------------------------------------------------------
(* What a call sees of a heap *)

Heap0 == [next_ |-> [n \in Nodes |-> n], previous_ |-> [n \in Nodes |-> n]]

\* The nodes of list l, in order, as iteration from begin() to end() meets them.
RECURSIVE chain_loop(_, _, _, _, _)
chain_loop(h, it, last, seen, fuel) ==
  IF it = last \/ fuel = 0 THEN seen
  ELSE chain_loop(h, iter_next(h, it), last, Append(seen, it), fuel - 1)

chain(h, l) == chain_loop(h, begin(h, l), end(l), <<>>, MaxSteps)

Range(s) == {s[i] : i \in 1..Len(s)}

members(h, l) == Range(chain(h, l))

\* Positions of list l: its elements and end().
positions(h, l) == members(h, l) \cup {end(l)}

LiveLists == {l \in Lists : data_(l) \in alive}
LiveObjects == {o \in Objects : node_from_object(o) \in alive}

\* Position of x in the sequence s, 0 when it is not there.
IndexOf(s, x) ==
  IF \E i \in 1..Len(s) : s[i] = x
  THEN CHOOSE i \in 1..Len(s) : s[i] = x /\ \A k \in 1..(i - 1) : s[k] # x
  ELSE 0

\* The iterators of list l in order, end() last.
iterators(h, l) == Append(chain(h, l), end(l))

\* The nodes of the half-open range [first, last).
range(h, first, last) == chain_loop(h, first, last, <<>>, MaxSteps)

\* [first, last) is a range of list l: both are iterators of l and last is
\* reached from first without passing end().
valid_range(h, l, first, last) ==
  /\ first \in positions(h, l)
  /\ last \in positions(h, l)
  /\ IndexOf(iterators(h, l), first) <= IndexOf(iterators(h, l), last)

\* The list is a closed chain of live objects around its header.
well_formed(h, live, l) ==
  /\ data_(l) \in live
  /\ forward(h, l).done
  /\ members(h, l) \subseteq (ObjectNodes \cap live)
  /\ \A n \in positions(h, l) : h.previous_[h.next_[n]] = n

NoOp == [name |-> "init", list |-> 0, other |-> 0, obj |-> 0, pos |-> 0,
         first |-> 0, last |-> 0, done |-> TRUE, result |-> 0]

Call(name, l, obj, pos) ==
  [name |-> name, list |-> l, other |-> 0, obj |-> obj, pos |-> pos,
   first |-> 0, last |-> 0, done |-> TRUE, result |-> 0]

\* A call that takes a second list or a range of iterators, or runs a loop.
CallRange(name, l, other, pos, first, last, done) ==
  [name |-> name, list |-> l, other |-> other, obj |-> 0, pos |-> pos,
   first |-> first, last |-> last, done |-> done, result |-> 0]

\* A call together with the iterator it returns.
Returning(call, it) == [call EXCEPT !.result = it]

Snapshot == [heap |-> heap, alive |-> alive]

----------------------------------------------------------------------------
(* Actions: one per call *)

\* The objects and lists have been constructed; the objects carry values
\* that repeat and are not in the order of their addresses.
Init ==
  /\ heap = Heap0
  /\ alive = Nodes
  /\ val = [o \in Objects |-> ((o \div 16) % MaxVal) + 1]
  /\ op = NoOp
  /\ pre = [heap |-> Heap0, alive |-> Nodes]
  /\ deque = [l \in Lists |-> <<>>]
  /\ net = [l \in Lists |-> 0]
  /\ onlyBack = [l \in Lists |-> TRUE]

\* A call that is not tracked by the abstract deque.
NoGhost == UNCHANGED <<deque, net, onlyBack>>

\* n.next.previous == n and n.previous.next == n
Linked(h, n) == h.previous_[h.next_[n]] = n /\ h.next_[h.previous_[n]] = n

Consistent(h, live) == \A n \in live : Linked(h, n)

\* Calls are made while no earlier call has corrupted the links: what a
\* call does to a chain that is already broken is not looked at.
Intact == Consistent(heap, alive)

\* The call leaves heap h behind.
Do(call, h) ==
  /\ Intact
  /\ heap' = h
  /\ op' = call
  /\ pre' = Snapshot

Step(name, l, obj, pos, h) == Do(Call(name, l, obj, pos), h)

PushFrontCall(l, o) ==
  /\ l \in LiveLists /\ o \in LiveObjects
  /\ ~in_list(heap, node_from_object(o))
  /\ Step("push_front", l, o, 0, push_front(heap, l, o))
  /\ UNCHANGED <<alive, val>>

PushFront(l, o) == PushFrontCall(l, o) /\ NoGhost

PushBackCall(l, o) ==
  /\ l \in LiveLists /\ o \in LiveObjects
  /\ ~in_list(heap, node_from_object(o))
  /\ Step("push_back", l, o, 0, push_back(heap, l, o))
  /\ UNCHANGED <<alive, val>>

PushBack(l, o) == PushBackCall(l, o) /\ NoGhost

PopFrontCall(l) ==
  /\ l \in LiveLists
  /\ ~empty(heap, l)
  /\ Step("pop_front", l, front(heap, l), 0, pop_front(heap, l))
  /\ UNCHANGED <<alive, val>>

PopFront(l) == PopFrontCall(l) /\ NoGhost

PopBackCall(l) ==
  /\ l \in LiveLists
  /\ ~empty(heap, l)
  /\ Step("pop_back", l, back(heap, l), 0, pop_back(heap, l))
  /\ UNCHANGED <<alive, val>>

PopBack(l) == PopBackCall(l) /\ NoGhost

Insert(l, pos, o) ==
  /\ l \in LiveLists /\ o \in LiveObjects
  /\ pos \in positions(heap, l)
  /\ ~in_list(heap, node_from_object(o))
  /\ Do(Returning(Call("insert", l, o, pos), inserted(o)),
        insert(heap, pos, o))
  /\ UNCHANGED <<alive, val>> /\ NoGhost

InsertAfter(l, pos, o) ==
  /\ l \in LiveLists /\ o \in LiveObjects
  /\ pos \in positions(heap, l)
  /\ ~in_list(heap, node_from_object(o))
  /\ Do(Returning(Call("insert_after", l, o, pos), inserted(o)),
        insert_after(heap, pos, o))
  /\ UNCHANGED <<alive, val>> /\ NoGhost

Erase(l, pos) ==
  /\ l \in LiveLists
  /\ pos \in members(heap, l)
  /\ Do(Returning(Call("erase", l, deref(pos), pos), heap.next_[pos]),
        erase(heap, pos))
  /\ UNCHANGED <<alive, val>> /\ NoGhost

Remove(o) ==
  /\ o \in LiveObjects
  /\ Step("remove", 0, o, 0, remove(heap, o))
  /\ UNCHANGED <<alive, val>> /\ NoGhost

Clear(l) ==
  /\ l \in LiveLists
  /\ Step("clear", l, 0, 0, clear(heap, l))
  /\ UNCHANGED <<alive, val>> /\ NoGhost

\* ~T(): the member's destructor ~intrusive_list_node() { remove(); } runs.
DestroyObject(o) ==
  /\ o \in LiveObjects
  /\ Step("destroy", 0, o, 0, node_remove(heap, node_from_object(o)))
  /\ alive' = alive \ {node_from_object(o)}
  /\ UNCHANGED val /\ NoGhost

\* T(): the member's constructor intrusive_list_node() runs.
ConstructObject(o) ==
  /\ o \in Objects \ LiveObjects
  /\ Step("construct", 0, o, 0, node_construct(heap, node_from_object(o)))
  /\ alive' = alive \cup {node_from_object(o)}
  /\ UNCHANGED val /\ NoGhost

\* splice(pos, first, last) on list l, [first, last) being a range of src
\* and pos an iterator of l outside the range.
SpliceRange(l, pos, src, first, last) ==
  /\ well_formed(heap, alive, l) /\ well_formed(heap, alive, src)
  /\ pos \in positions(heap, l)
  /\ valid_range(heap, src, first, last)
  /\ pos \notin Range(range(heap, first, last))
  /\ Do(CallRange("splice_range", l, src, pos, first, last, TRUE),
        splice_range(heap, pos, first, last))
  /\ UNCHANGED <<alive, val>> /\ NoGhost

\* splice(pos, other) taking the object: it sits in any list or in none.
SpliceObject(l, pos, o) ==
  /\ well_formed(heap, alive, l)
  /\ o \in LiveObjects
  /\ \A m \in Lists : node_from_object(o) \in members(heap, m) =>
                         well_formed(heap, alive, m)
  /\ pos \in positions(heap, l) \ {node_from_object(o)}
  /\ Step("splice_object", l, o, pos, splice_object(heap, pos, o))
  /\ UNCHANGED <<alive, val>> /\ NoGhost

\* splice(pos, other) taking another list.
SpliceList(l, pos, other) ==
  /\ well_formed(heap, alive, l) /\ well_formed(heap, alive, other)
  /\ other # l
  /\ pos \in positions(heap, l)
  /\ Do(CallRange("splice_list", l, other, pos, begin(heap, other),
                   end(other), TRUE),
        splice_list(heap, pos, other))
  /\ UNCHANGED <<alive, val>> /\ NoGhost

\* splice(pos, iter) taking an iterator to an element of src.
SpliceIterator(l, pos, src, iter) ==
  /\ well_formed(heap, alive, l) /\ well_formed(heap, alive, src)
  /\ iter \in members(heap, src)
  /\ pos \in positions(heap, l) \ {iter}
  /\ Do([CallRange("splice_iterator", l, src, pos, iter,
                    iter_next(heap, iter), TRUE) EXCEPT !.obj = deref(iter)],
        splice_iterator(heap, pos, iter))
  /\ UNCHANGED <<alive, val>> /\ NoGhost

\* No element precedes one that compares less than it.
Sorted(s) == \A i, j \in 1..Len(s) : i < j => ~compare(s[j], s[i])

\* this.merge(other, compare) on two distinct lists, both sorted as merge
\* requires of its callers.
Merge(l, other) ==
  /\ well_formed(heap, alive, l) /\ well_formed(heap, alive, other)
  /\ other # l
  /\ Sorted(forward(heap, l).objs) /\ Sorted(forward(heap, other).objs)
  /\ LET r == merge(heap, l, other)
     IN Do(CallRange("merge", l, other, 0, 0, 0, r.done), r.heap)
  /\ UNCHANGED <<alive, val>> /\ NoGhost

Unique(l) ==
  /\ well_formed(heap, alive, l)
  /\ LET r == unique(heap, l)
     IN Do(CallRange("unique", l, 0, 0, 0, 0, r.done), r.heap)
  /\ UNCHANGED <<alive, val>> /\ NoGhost

Sort(l) ==
  /\ well_formed(heap, alive, l)
  /\ LET r == sort(heap, l)
     IN Do(CallRange("sort", l, 0, 0, 0, 0, r.done), r.heap)
  /\ UNCHANGED <<alive, val>> /\ NoGhost

\* The list at l goes out of scope.
DestroyList(l) ==
  /\ l \in LiveLists
  /\ Step("destroy_list", l, 0, 0, list_destroy(heap, l))
  /\ alive' = alive \ {data_(l)}
  /\ UNCHANGED val /\ NoGhost

\* A new empty list is constructed at l.
ConstructList(l) ==
  /\ l \in Lists \ LiveLists
  /\ Step("construct_list", l, 0, 0, list_construct(heap, l))
  /\ alive' = alive \cup {data_(l)}
  /\ UNCHANGED val /\ NoGhost

\* l = std::move(other)
MoveAssignList(l, other) ==
  /\ l \in LiveLists /\ other \in LiveLists
  /\ other # l
  /\ Do(CallRange("move_assign", l, other, 0, 0, 0, TRUE),
        list_move_assign(heap, l, other))
  /\ UNCHANGED <<alive, val>> /\ NoGhost

\* A new list is move-constructed at l from other.
MoveConstructList(l, other) ==
  /\ l \in Lists \ LiveLists /\ other \in LiveLists
  /\ Do(CallRange("move_construct", l, other, 0, 0, 0, TRUE),
        list_move_construct(heap, l, other))
  /\ alive' = alive \cup {data_(l)}
  /\ UNCHANGED val /\ NoGhost

Next ==
  \/ \E l \in Lists, o \in Objects : PushFront(l, o)
  \/ \E l \in Lists, o \in Objects : PushBack(l, o)
  \/ \E l \in Lists : PopFront(l)
  \/ \E l \in Lists : PopBack(l)
  \/ \E l \in Lists, o \in Objects : \E pos \in positions(heap, l) :
       Insert(l, pos, o)
  \/ \E l \in Lists, o \in Objects : \E pos \in positions(heap, l) :
       InsertAfter(l, pos, o)
  \/ \E l \in Lists : \E pos \in members(heap, l) : Erase(l, pos)
  \/ \E o \in Objects : Remove(o)
  \/ \E l \in Lists : Clear(l)
  \/ \E o \in Objects : DestroyObject(o)
  \/ \E o \in Objects : ConstructObject(o)

Spec == Init /\ [][Next]_vars

----------------------------------------------------------------------------
(* push and pop alone, beside the abstract double-ended sequence *)

DequePushFront(l, o) ==
  /\ PushFrontCall(l, o)
  /\ deque' = [deque EXCEPT ![l] = <<o>> \o @]
  /\ net' = [net EXCEPT ![l] = @ + 1]
  /\ onlyBack' = [onlyBack EXCEPT ![l] = FALSE]

DequePushBack(l, o) ==
  /\ PushBackCall(l, o)
  /\ deque' = [deque EXCEPT ![l] = Append(@, o)]
  /\ net' = [net EXCEPT ![l] = @ + 1]
  /\ UNCHANGED onlyBack

DequePopFront(l) ==
  /\ PopFrontCall(l)
  /\ deque' = [deque EXCEPT ![l] = Tail(@)]
  /\ net' = [net EXCEPT ![l] = @ - 1]
  /\ onlyBack' = [onlyBack EXCEPT ![l] = FALSE]

DequePopBack(l) ==
  /\ PopBackCall(l)
  /\ deque' = [deque EXCEPT ![l] = SubSeq(@, 1, Len(@) - 1)]
  /\ net' = [net EXCEPT ![l] = @ - 1]
  /\ onlyBack' = [onlyBack EXCEPT ![l] = FALSE]

NextDeque ==
  \/ \E l \in Lists, o \in Objects : DequePushFront(l, o)
  \/ \E l \in Lists, o \in Objects : DequePushBack(l, o)
  \/ \E l \in Lists : DequePopFront(l)
  \/ \E l \in Lists : DequePopBack(l)

SpecDeque == Init /\ [][NextDeque]_vars

----------------------------------------------------------------------------
(* Every public operation, on objects whose values are chosen at the start *)

InitValues ==
  /\ heap = Heap0
  /\ alive = Nodes
  /\ val \in [Objects -> Values]
  /\ op = NoOp
  /\ pre = [heap |-> Heap0, alive |-> Nodes]
  /\ deque = [l \in Lists |-> <<>>]
  /\ net = [l \in Lists |-> 0]
  /\ onlyBack = [l \in Lists |-> TRUE]

NextSplice ==
  \/ \E l \in Lists, o \in Objects : PushBack(l, o)
  \/ \E o \in Objects : Remove(o)
  \/ \E l, src \in Lists :
       \E pos \in positions(heap, l), first, last \in positions(heap, src) :
         SpliceRange(l, pos, src, first, last)
  \/ \E l \in Lists, o \in Objects : \E pos \in positions(heap, l) :
       SpliceObject(l, pos, o)
  \/ \E l, other \in Lists : \E pos \in positions(heap, l) :
       SpliceList(l, pos, other)
  \/ \E l, src \in Lists :
       \E pos \in positions(heap, l), iter \in members(heap, src) :
         SpliceIterator(l, pos, src, iter)

SpecSplice == Init /\ [][NextSplice]_vars

\* The caller of merge builds its lists in ascending order: it pushes at
\* the back an object that does not compare less than the last one.
PushBackAscending(l, o) ==
  /\ IF empty(heap, l) THEN TRUE ELSE ~compare(o, back(heap, l))
  /\ PushBack(l, o)

NextMerge ==
  \/ \E l \in Lists, o \in Objects : PushBackAscending(l, o)
  \/ \E l, other \in Lists : Merge(l, other)

SpecMerge == InitValues /\ [][NextMerge]_vars

\* The basic calls, the whole-list algorithms and the lifetime of containers.
NextLifetime ==
  \/ Next
  \/ \E l, other \in Lists : Merge(l, other)
  \/ \E l \in Lists : Unique(l)
  \/ \E l \in Lists : Sort(l)
  \/ \E l \in Lists : DestroyList(l)
  \/ \E l \in Lists : ConstructList(l)
  \/ \E l, other \in Lists : MoveAssignList(l, other)
  \/ \E l, other \in Lists : MoveConstructList(l, other)

SpecLifetime == Init /\ [][NextLifetime]_vars

\* erase(first, last) on a range of list l, the empty range and the range
\* up to end() included.
EraseRange(l, first, last) ==
  /\ well_formed(heap, alive, l)
  /\ valid_range(heap, l, first, last)
  /\ LET r == erase_range(heap, first, last)
     IN Do(Returning(CallRange("erase_range", l, 0, 0, first, last, r.done),
                     r.result),
           r.heap)
  /\ UNCHANGED <<alive, val>> /\ NoGhost

NextEraseRange ==
  \/ \E l \in Lists, o \in Objects : PushBack(l, o)
  \/ \E l \in Lists : \E first, last \in positions(heap, l) :
       EraseRange(l, first, last)

SpecEraseRange == Init /\ [][NextEraseRange]_vars

\* l.swap(other) on two lists of any lengths.
Swap(l, other) ==
  /\ well_formed(heap, alive, l) /\ well_formed(heap, alive, other)
  /\ other # l
  /\ Do(CallRange("swap", l, other, 0, 0, 0, TRUE), swap(heap, l, other))
  /\ UNCHANGED <<alive, val>> /\ NoGhost

NextSwap ==
  \/ \E l \in Lists, o \in Objects : PushBack(l, o)
  \/ \E l, other \in Lists : Swap(l, other)

SpecSwap == Init /\ [][NextSwap]_vars

\* Containers that are filled, moved from, moved into, destroyed and
\* constructed again.
NextListMove ==
  \/ \E l \in Lists, o \in Objects : PushBack(l, o)
  \/ \E l \in Lists : DestroyList(l)
  \/ \E l \in Lists : ConstructList(l)
  \/ \E l, other \in Lists : MoveAssignList(l, other)
  \/ \E l, other \in Lists : MoveConstructList(l, other)

SpecListMove == Init /\ [][NextListMove]_vars

\* The sequences without repetition of elements of S.
Arrangements(S) ==
  {s \in UNION {[1..n -> S] : n \in 0..Cardinality(S)} :
     \A i, j \in 1..Len(s) : s[i] = s[j] => i = j}

\* insert(pos, first, last): the input range yields objects that are in no
\* list, each once. The record of the call keeps them in `input`.
InsertRange(l, pos, input) ==
  /\ l \in LiveLists
  /\ pos \in positions(heap, l)
  /\ LET r == insert_range(heap, pos, input)
     IN Do([Returning(Call("insert_range", l, 0, pos), r.result)
              EXCEPT !.first = input],
           r.heap)
  /\ UNCHANGED <<alive, val>> /\ NoGhost

NextInsert ==
  \/ \E l \in Lists, o \in Objects : PushBack(l, o)
  \/ \E o \in Objects : Remove(o)
  \/ \E l \in Lists, o \in Objects : \E pos \in positions(heap, l) :
       Insert(l, pos, o)
  \/ \E l \in Lists, o \in Objects : \E pos \in positions(heap, l) :
       InsertAfter(l, pos, o)
  \/ \E l \in Lists : \E pos \in positions(heap, l) :
       \E input \in Arrangements({o \in LiveObjects :
                                    ~in_list(heap, node_from_object(o))}) :
         InsertRange(l, pos, input)

SpecInsert == Init /\ [][NextInsert]_vars

\* T(T&&) of an object whose link field is move-constructed from that of
\* the object s: a new object comes to life at d.
MoveConstructNode(d, s) ==
  /\ d \in Objects \ LiveObjects /\ s \in LiveObjects
  /\ Do([Call("node_move_construct", 0, d, 0) EXCEPT !.other = s],
        node_move_construct(heap, node_from_object(d), node_from_object(s)))
  /\ alive' = alive \cup {node_from_object(d)}
  /\ UNCHANGED val /\ NoGhost

\* d = std::move(s) on the link fields of two distinct live objects.
MoveAssignNode(d, s) ==
  /\ d \in LiveObjects /\ s \in LiveObjects
  /\ d # s
  /\ Do([Call("node_move_assign", 0, d, 0) EXCEPT !.other = s],
        node_move_assign(heap, node_from_object(d), node_from_object(s)))
  /\ UNCHANGED <<alive, val>> /\ NoGhost

NextNodeMove ==
  \/ \E l \in Lists, o \in Objects : PushBack(l, o)
  \/ \E o \in Objects : DestroyObject(o)
  \/ \E d, s \in Objects : MoveConstructNode(d, s)
  \/ \E d, s \in Objects : MoveAssignNode(d, s)

SpecNodeMove == Init /\ [][NextNodeMove]_vars

\* The calls that work on one list, made on lists that stand side by side.
NextFrame ==
  \/ \E l \in Lists, o \in Objects : PushFront(l, o)
  \/ \E l \in Lists, o \in Objects : PushBack(l, o)
  \/ \E l \in Lists : PopFront(l)
  \/ \E l \in Lists : PopBack(l)
  \/ \E l \in Lists, o \in Objects : \E pos \in positions(heap, l) :
       Insert(l, pos, o)
  \/ \E l \in Lists, o \in Objects : \E pos \in positions(heap, l) :
       InsertAfter(l, pos, o)
  \/ \E l \in Lists : \E pos \in members(heap, l) : Erase(l, pos)
  \/ \E l \in Lists : Clear(l)
  \/ \E l \in Lists : Unique(l)
  \/ \E l \in Lists : Sort(l)
  \/ \E l \in Lists : \E first, last \in positions(heap, l) :
       EraseRange(l, first, last)
  \/ \E l \in Lists : \E pos \in positions(heap, l) :
       \E input \in Arrangements({o \in LiveObjects :
                                    ~in_list(heap, node_from_object(o))}) :
         InsertRange(l, pos, input)

SpecFrame == Init /\ [][NextFrame]_vars

\* Lists filled in any order of values, then sorted or stripped of repeats.
NextSortUnique ==
  \/ \E l \in Lists, o \in Objects : PushBack(l, o)
  \/ \E l \in Lists : Sort(l)
  \/ \E l \in Lists : Unique(l)

\* The objects are alike but for their values, and a list is filled in any
\* order of its objects: the values grow with the address without loss of
\* any order of values in a list.
InitValuesByAddress ==
  /\ InitValues
  /\ \A o, q \in Objects : o < q => val[o] <= val[q]

SpecSortUnique == InitValuesByAddress /\ [][NextSortUnique]_vars

----------------------------------------------------------------------------
(* Properties *)

Reverse(s) == [i \in 1..Len(s) |-> s[Len(s) + 1 - i]]

\* s with every occurrence of x taken out.
Without(s, x) == SelectSeq(s, LAMBDA y : y # x)

Count(s, x) == Cardinality({i \in 1..Len(s) : s[i] = x})

\* C1: after any sequence of well-formed push_front, push_back, pop_front,
\* pop_back, insert, insert_after, erase(pos), static remove, clear calls and
\* destructions of member elements, every live link field n (element or
\* list header) has n.next.previous == n and n.previous.next == n.
C1_LinksConsistent == Consistent(heap, alive)

\* An element was destroyed out of a list that keeps two members.
C1_Witness ==
  /\ op.name = "destroy"
  /\ in_list(pre.heap, node_from_object(op.obj))
  /\ \E l \in Lists : size(heap, l) = 2

\* The list whose chain holds node n, 0 when no live list does.
ListOf(h, live, n) ==
  IF \E l \in Lists : data_(l) \in live /\ n \in members(h, l)
  THEN CHOOSE l \in Lists : data_(l) \in live /\ n \in members(h, l)
  ELSE 0

\* C2: at every point reached by the public operations, moving and
\* destroying containers included, in_list() of a live element is true
\* exactly when the element is reachable from the header of some live list,
\* and an element that is a member of no list is self-linked.
C2_InListIffMember ==
  \A o \in LiveObjects :
    LET n == node_from_object(o)
        member == ListOf(heap, alive, n) # 0
    IN /\ in_list(heap, n) <=> member
       /\ ~member => (heap.next_[n] = n /\ heap.previous_[n] = n)

\* C3: under push_front, push_back, pop_front and pop_back alone, from empty
\* lists, each list behaves like the abstract double-ended sequence: size()
\* is the number of pushes minus the number of pops, empty() holds iff that
\* number is 0, and front() and back() are the ends of the sequence.
C3_DequeRefinement ==
  \A l \in Lists :
    /\ forward(heap, l).done
    /\ size(heap, l) = net[l]
    /\ net[l] = Len(deque[l])
    /\ empty(heap, l) <=> (net[l] = 0)
    /\ net[l] > 0 =>
         /\ front(heap, l) = deque[l][1]
         /\ back(heap, l) = deque[l][Len(deque[l])]

\* A pop has left a list with two members whose ends differ.
C3_Witness ==
  /\ op.name \in {"pop_front", "pop_back"}
  /\ net[op.list] = 2
  /\ front(heap, op.list) # back(heap, op.list)

\* C4: in a list built by push_back calls alone, iteration from begin() to
\* end() ends at the header having visited every pushed object once, in the
\* order of the pushes, and iteration from rbegin() to rend() visits the
\* same objects in the reverse order.
C4_IterationOrder ==
  \A l \in Lists :
    onlyBack[l] =>
      /\ forward(heap, l).done
      /\ forward(heap, l).objs = deque[l]
      /\ backward(heap, l).done
      /\ backward(heap, l).objs = Reverse(deque[l])

\* A list of as many objects as there are, all pushed at the back.
C4_Witness ==
  \E l \in Lists :
    /\ onlyBack[l]
    /\ Len(deque[l]) = NumObjects
    /\ op.name = "push_back"

\* C5: destroying an object that is a member of a list removes it: no live
\* link field refers to its field afterwards, and iterating each list visits
\* exactly the members that remain, in their former order.
C5_DestroyUnlinks ==
  (op.name = "destroy" /\ in_list(pre.heap, node_from_object(op.obj))) =>
    /\ \A n \in alive :
         /\ heap.next_[n] # node_from_object(op.obj)
         /\ heap.previous_[n] # node_from_object(op.obj)
    /\ \A l \in Lists :
         /\ forward(heap, l).done
         /\ forward(heap, l).objs = Without(forward(pre.heap, l).objs, op.obj)

\* The middle one of three members was destroyed.
C5_Witness ==
  /\ op.name = "destroy"
  /\ \E l \in Lists :
       /\ Len(forward(pre.heap, l).objs) = 3
       /\ forward(pre.heap, l).objs[2] = op.obj
       /\ Len(forward(heap, l).objs) = 2

\* The ways to put an unlinked object x into list l.
Reinsertions(h, l, x) ==
  {push_front(h, l, x), push_back(h, l, x)}
    \cup {insert(h, pos, x) : pos \in positions(h, l)}
    \cup {insert_after(h, pos, x) : pos \in positions(h, l)}

\* C6: an object taken out of a list by static remove, erase(pos), pop_front
\* or pop_back reports in_list() == false, and inserting it again, into the
\* same list or another one, makes it appear there exactly once.
C6_RemovedIsReusable ==
  (/\ op.name \in {"remove", "erase", "pop_front", "pop_back"}
   /\ in_list(pre.heap, node_from_object(op.obj))) =>
    /\ ~in_list(heap, node_from_object(op.obj))
    /\ \A l \in LiveLists : \A h \in Reinsertions(heap, l, op.obj) :
         /\ Consistent(h, alive)
         /\ forward(h, l).done
         /\ Count(forward(h, l).objs, op.obj) = 1
         /\ Without(forward(h, l).objs, op.obj) = forward(heap, l).objs
         /\ \A m \in LiveLists \ {l} : forward(h, m) = forward(heap, m)

\* An object was erased from between two others, which stay behind, and a
\* second list is there to take it.
C6_Witness ==
  /\ op.name = "erase"
  /\ Cardinality(LiveLists) >= 2
  /\ Len(forward(pre.heap, op.list).objs) = 3
  /\ forward(pre.heap, op.list).objs[2] = op.obj
  /\ Len(forward(heap, op.list).objs) = 2

----------------------------------------------------------------------------
(* splice *)

\* s with the elements of m put immediately before pos, at the end when
\* pos is not in s (pos is end()).
InsertedBefore(s, pos, m) ==
  IF IndexOf(s, pos) = 0 THEN s \o m
  ELSE SubSeq(s, 1, IndexOf(s, pos) - 1) \o m \o SubSeq(s, IndexOf(s, pos), Len(s))

\* s without the elements of m.
Minus(s, m) == SelectSeq(s, LAMBDA y : y \notin Range(m))

\* What moving the nodes `moved` of list src before pos of list dst must
\* leave: the chains of dst and of src, every other chain as it was, every
\* walk ending at its header and every link doubly consistent.
MovedBefore(dst, src, pos, moved) ==
  /\ Consistent(heap, alive)
  /\ \A l \in Lists : forward(heap, l).done
  /\ chain(heap, dst) =
       InsertedBefore(Minus(chain(pre.heap, dst), moved), pos, moved)
  /\ src # dst => chain(heap, src) = Minus(chain(pre.heap, src), moved)
  /\ \A l \in Lists \ {dst, src} : chain(heap, l) = chain(pre.heap, l)

\* C7: splice(pos, first, last), for a range [first, last) of one list and a
\* position pos of the destination that is not a moved element, puts exactly
\* the elements of the range, in their order, immediately before pos; the
\* rest of the source stays linked in order; nothing is dropped or doubled;
\* an empty range changes nothing; splice(pos, other) moves all of other
\* before pos and leaves other empty.
C7_SpliceRange ==
  (op.name \in {"splice_range", "splice_list"}) =>
    /\ MovedBefore(op.list, op.other, op.pos,
                   range(pre.heap, op.first, op.last))
    /\ op.first = op.last => heap = pre.heap
    /\ op.name = "splice_list" => empty(heap, op.other)

\* The same with the one case taken out in which the code goes wrong: pos
\* equal to last with a range that is not empty.
C7_SpliceRangeUnlessPosIsLast ==
  (/\ op.name \in {"splice_range", "splice_list"}
   /\ ~(op.pos = op.last /\ op.first # op.last)) =>
    /\ MovedBefore(op.list, op.other, op.pos,
                   range(pre.heap, op.first, op.last))
    /\ op.first = op.last => heap = pre.heap
    /\ op.name = "splice_list" => empty(heap, op.other)

\* C8: for a member x of any list and a position pos other than x,
\* splice(pos, x) taking the object and splice(pos, it) taking an iterator to
\* x both leave x immediately before pos, the other elements in order and
\* the links consistent, and the two overloads give the same lists.
C8_SpliceOne ==
  (/\ op.name \in {"splice_object", "splice_iterator"}
   /\ ListOf(pre.heap, pre.alive, node_from_object(op.obj)) # 0) =>
    /\ MovedBefore(op.list,
                   ListOf(pre.heap, pre.alive, node_from_object(op.obj)),
                   op.pos, <<node_from_object(op.obj)>>)
    /\ op.name = "splice_iterator" =>
         heap = splice_object(pre.heap, op.pos, op.obj)

\* The same for the overload taking the object alone; the overload taking
\* an iterator goes wrong when pos is the element after x.
C8_SpliceObjectAlone ==
  (/\ op.name = "splice_object"
   /\ ListOf(pre.heap, pre.alive, node_from_object(op.obj)) # 0) =>
    MovedBefore(op.list,
                ListOf(pre.heap, pre.alive, node_from_object(op.obj)),
                op.pos, <<node_from_object(op.obj)>>)

----------------------------------------------------------------------------
(* merge *)

\* merge was called on two sorted lists.
MergedSorted ==
  /\ op.name = "merge"
  /\ Sorted(forward(pre.heap, op.list).objs)
  /\ Sorted(forward(pre.heap, op.other).objs)

\* C9: merge of two lists sorted ascending under compare ends with this
\* holding every element of both lists exactly once, in sorted order, and
\* with other empty.
C9_MergeSorted ==
  MergedSorted =>
    LET mine == forward(pre.heap, op.list).objs
        theirs == forward(pre.heap, op.other).objs
        result == forward(heap, op.list)
    IN /\ op.done
       /\ result.done
       /\ Len(result.objs) = Len(mine) + Len(theirs)
       /\ \A o \in Range(mine) \cup Range(theirs) : Count(result.objs, o) = 1
       /\ Sorted(result.objs)
       /\ empty(heap, op.other)
       /\ Consistent(heap, alive)

\* Two sorted lists that both hold elements were merged, and the element of
\* other did not belong at the end.
C9_Witness ==
  /\ MergedSorted
  /\ Len(forward(pre.heap, op.list).objs) = 2
  /\ Len(forward(pre.heap, op.other).objs) = 1
  /\ back(heap, op.list) # forward(pre.heap, op.other).objs[1]
  /\ size(heap, op.list) = 3

\* a comes before b in s.
Precedes(s, a, b) == IndexOf(s, a) < IndexOf(s, b)

\* C10: merge is stable: for a from this and b from other that are equal
\* under compare, a precedes b in the result, and elements that came from
\* the same list keep their relative order.
C10_MergeStable ==
  MergedSorted =>
    LET mine == forward(pre.heap, op.list).objs
        theirs == forward(pre.heap, op.other).objs
        result == forward(heap, op.list).objs
    IN /\ \A a \in Range(mine), b \in Range(theirs) :
            (~compare(a, b) /\ ~compare(b, a)) => Precedes(result, a, b)
       /\ \A i, j \in 1..Len(mine) :
            i < j => Precedes(result, mine[i], mine[j])
       /\ \A i, j \in 1..Len(theirs) :
            i < j => Precedes(result, theirs[i], theirs[j])

\* What holds instead: elements of the same list keep their order, and an
\* element of other goes ahead of the elements of this equal to it.
C10_MergeOtherFirst ==
  MergedSorted =>
    LET mine == forward(pre.heap, op.list).objs
        theirs == forward(pre.heap, op.other).objs
        result == forward(heap, op.list).objs
    IN /\ \A a \in Range(mine), b \in Range(theirs) :
            (~compare(a, b) /\ ~compare(b, a)) => Precedes(result, b, a)
       /\ \A i, j \in 1..Len(mine) :
            i < j => Precedes(result, mine[i], mine[j])
       /\ \A i, j \in 1..Len(theirs) :
            i < j => Precedes(result, theirs[i], theirs[j])

\* C11: sort ends, and the list then holds the elements it held before,
\* each once, in non-decreasing order under compare, with the elements that
\* are equal under compare in the order they had before the call.
C11_SortStable ==
  op.name = "sort" =>
    LET before == forward(pre.heap, op.list).objs
        result == forward(heap, op.list)
    IN /\ op.done
       /\ result.done
       /\ Len(result.objs) = Len(before)
       /\ \A o \in Range(before) : Count(result.objs, o) = 1
       /\ Sorted(result.objs)
       /\ \A i, j \in 1..Len(before) :
            (i < j /\ ~compare(before[i], before[j])
                   /\ ~compare(before[j], before[i]))
              => Precedes(result.objs, before[i], before[j])
       /\ Consistent(heap, alive)

\* A list of three that was out of order and held two equal elements was
\* sorted.
C11_Witness ==
  /\ op.name = "sort"
  /\ LET before == forward(pre.heap, op.list).objs
     IN /\ Len(before) = 3
        /\ ~Sorted(before)
        /\ \E i, j \in 1..3 : i < j /\ val[before[i]] = val[before[j]]
        /\ forward(heap, op.list).objs # before

\* The first element of every maximal run of consecutive elements of s that
\* are equal under equal_to, in the order of s.
FirstOfRuns(s) ==
  LET kept == {i \in 1..Len(s) : i = 1 \/ ~equal_to(s[i - 1], s[i])}
      nth(k) == CHOOSE i \in kept : Cardinality({m \in kept : m < i}) = k - 1
  IN [k \in 1..Cardinality(kept) |-> s[nth(k)]]

\* C12: unique leaves the first element of every maximal run of consecutive
\* equal elements, in the order they had, on every list, the empty one and
\* the list of one included; every element it removed is linked to itself.
C12_UniqueRuns ==
  op.name = "unique" =>
    LET before == forward(pre.heap, op.list).objs
        result == forward(heap, op.list)
    IN /\ op.done
       /\ result.done
       /\ result.objs = FirstOfRuns(before)
       /\ \A o \in Range(before) \ Range(result.objs) :
            ~in_list(heap, node_from_object(o))
       /\ Consistent(heap, alive)

\* unique took the repeat out of a list of three and kept two elements.
C12_Witness ==
  /\ op.name = "unique"
  /\ Len(forward(pre.heap, op.list).objs) = 3
  /\ Len(forward(heap, op.list).objs) = 2

\* C13: erase(first, last), last reached from first, unlinks the elements of
\* [first, last) and no other, each left linked to itself; the elements
\* outside the range, the one at last included, keep their order with
\* consistent links; the iterator returned is last.
C13_EraseRange ==
  op.name = "erase_range" =>
    LET erased == range(pre.heap, op.first, op.last)
    IN /\ op.done
       /\ \A n \in Range(erased) : ~in_list(heap, n)
       /\ chain(heap, op.list) = Minus(chain(pre.heap, op.list), erased)
       /\ forward(heap, op.list).done
       /\ Consistent(heap, alive)
       /\ op.result = op.last

\* C14: a.swap(b) on two lists of any lengths, one or both empty included,
\* leaves a with the sequence b had and b with the sequence a had, in the
\* same order, all links consistent in both directions and each header in
\* its own chain only.
C14_Swap ==
  op.name = "swap" =>
    /\ forward(heap, op.list) = forward(pre.heap, op.other)
    /\ forward(heap, op.other) = forward(pre.heap, op.list)
    /\ Consistent(heap, alive)
    /\ well_formed(heap, alive, op.list)
    /\ well_formed(heap, alive, op.other)

\* A list was move-assigned or move-constructed from another.
ListMoved == op.name \in {"move_assign", "move_construct"}

\* The nodes whose next_ or previous_ the last call has changed.
Rewired == {n \in Nodes : \/ heap.next_[n] # pre.heap.next_[n]
                          \/ heap.previous_[n] # pre.heap.previous_[n]}

\* The destination holds what the source held, and the source is empty with
\* its header linked to itself.
MovedInto ==
  /\ forward(heap, op.list) = forward(pre.heap, op.other)
  /\ forward(heap, op.list).done
  /\ empty(heap, op.other)
  /\ ~in_list(heap, data_(op.other))
  /\ heap.previous_[data_(op.other)] = data_(op.other)

\* C15: move-construction and move-assignment of a list give the destination
\* the sequence the source had, in order, and leave the source empty, for
\* every source, the empty one included; only the two headers and the first
\* and last element of the source are rewired.
C15_ListMove ==
  ListMoved =>
    /\ MovedInto
    /\ Rewired \subseteq {data_(op.list), data_(op.other),
                          pre.heap.next_[data_(op.other)],
                          pre.heap.previous_[data_(op.other)]}

\* C15 as it holds: the first and last element the destination had before
\* are rewired as well.
C15_ListMoveRewiresDestination ==
  ListMoved =>
    /\ MovedInto
    /\ Rewired \subseteq {data_(op.list), data_(op.other),
                          pre.heap.next_[data_(op.other)],
                          pre.heap.previous_[data_(op.other)],
                          pre.heap.next_[data_(op.list)],
                          pre.heap.previous_[data_(op.list)]}

\* A list of two was move-assigned to a list that held an element.
C15_Witness ==
  /\ op.name = "move_assign"
  /\ size(pre.heap, op.other) = 2
  /\ size(pre.heap, op.list) = 1
  /\ size(heap, op.list) = 2

\* C16: after clear() on a list of any length the list is empty, its header
\* linked to itself and its size 0, and every element it held is linked to
\* itself and can be inserted again, into that list or another.
C16_ClearUnlinksAll ==
  op.name = "clear" =>
    /\ empty(heap, op.list)
    /\ size(heap, op.list) = 0
    /\ heap.next_[data_(op.list)] = data_(op.list)
    /\ heap.previous_[data_(op.list)] = data_(op.list)
    /\ \A n \in members(pre.heap, op.list) :
         /\ ~in_list(heap, n)
         /\ heap.previous_[n] = n
         /\ \A l \in LiveLists :
              \A h \in Reinsertions(heap, l, object_from_node(n)) :
                /\ Consistent(h, alive)
                /\ forward(h, l).done
                /\ Count(forward(h, l).objs, object_from_node(n)) = 1
                /\ Without(forward(h, l).objs, object_from_node(n))
                     = forward(heap, l).objs
                /\ \A m \in LiveLists \ {l} : forward(h, m) = forward(heap, m)

\* A list of two was cleared while the other list held an element.
C16_Witness ==
  /\ op.name = "clear"
  /\ size(pre.heap, op.list) = 2
  /\ \E l \in LiveLists : size(heap, l) = 1

\* The sequence s with the sequence m put in right behind pos.
InsertedAfter(s, pos, m) ==
  SubSeq(s, 1, IndexOf(s, pos)) \o m \o SubSeq(s, IndexOf(s, pos) + 1, Len(s))

\* The nodes of a sequence of objects.
NodesOf(objs) == [i \in 1..Len(objs) |-> node_from_object(objs[i])]

\* Every list but the one of the last call iterates as before.
OthersKept ==
  \A m \in LiveLists \ {op.list} : forward(heap, m) = forward(pre.heap, m)

\* C17: for obj in no list, insert(pos, obj) leaves obj right before pos
\* (pos an element or end()), insert_after(pos, obj) right after the element
\* pos, every other element in its order, and the iterator returned refers
\* to obj; insert(pos, first, last) puts the k objects of the input range
\* right before pos in the order of the input.
C17_InsertAtPos ==
  /\ op.name = "insert" =>
       /\ chain(heap, op.list)
            = InsertedBefore(chain(pre.heap, op.list), op.pos,
                             <<node_from_object(op.obj)>>)
       /\ deref(op.result) = op.obj
       /\ forward(heap, op.list).done /\ OthersKept
       /\ Consistent(heap, alive)
  /\ (op.name = "insert_after" /\ op.pos # end(op.list)) =>
       /\ chain(heap, op.list)
            = InsertedAfter(chain(pre.heap, op.list), op.pos,
                            <<node_from_object(op.obj)>>)
       /\ deref(op.result) = op.obj
       /\ forward(heap, op.list).done /\ OthersKept
       /\ Consistent(heap, alive)
  /\ op.name = "insert_range" =>
       /\ chain(heap, op.list)
            = InsertedBefore(chain(pre.heap, op.list), op.pos,
                             NodesOf(op.first))
       /\ forward(heap, op.list).done /\ OthersKept
       /\ Consistent(heap, alive)

\* Two objects were inserted as a range before the only element of a list:
\* they come first, in the order of the input, and the element last.
C17_Witness ==
  /\ op.name = "insert_range"
  /\ Len(op.first) = 2
  /\ size(pre.heap, op.list) = 1
  /\ op.pos # end(op.list)
  /\ forward(heap, op.list).objs = op.first \o <<deref(op.pos)>>

\* A link field was move-constructed or move-assigned from another.
NodeMoved == op.name \in {"node_move_construct", "node_move_assign"}

\* The sequence s with every x replaced by y.
Substituted(s, x, y) == [i \in 1..Len(s) |-> IF s[i] = x THEN y ELSE s[i]]

\* Every list holds what it held, but for d taken out of where it was and
\* put where s was, and the links of all live nodes agree.
TakesThePlace(d, s) ==
  /\ \A l \in LiveLists :
       /\ forward(heap, l).done
       /\ chain(heap, l) = Substituted(Without(chain(pre.heap, l), d), s, d)
  /\ Consistent(heap, alive)

\* C18: d move-constructed or move-assigned from a distinct s in a list takes
\* the place of s: the next and previous neighbour s had point to d, d's
\* next_ and previous_ are those neighbours, and s is linked to itself; from
\* an s in no list, d ends linked to itself; the list d was in before a move
\* assignment stays consistent with d taken out.
C18_NodeMove ==
  NodeMoved =>
    LET d == node_from_object(op.obj)
        s == node_from_object(op.other)
        next == pre.heap.next_[s]
        previous == pre.heap.previous_[s]
    IN /\ in_list(pre.heap, s) =>
            /\ heap.previous_[next] = d /\ heap.next_[previous] = d
            /\ heap.next_[d] = next /\ heap.previous_[d] = previous
            /\ heap.next_[s] = s /\ heap.previous_[s] = s
       /\ ~in_list(pre.heap, s) =>
            heap.next_[d] = d /\ heap.previous_[d] = d
       /\ TakesThePlace(d, s)

\* C18 as it holds: when d was itself the neighbour of s, the neighbour that
\* counts is the one s has once d is out of the list, the node beyond d.
C18_NodeMoveNeighbourBeyond ==
  NodeMoved =>
    LET d == node_from_object(op.obj)
        s == node_from_object(op.other)
        next == IF pre.heap.next_[s] = d
                THEN pre.heap.next_[d] ELSE pre.heap.next_[s]
        previous == IF pre.heap.previous_[s] = d
                    THEN pre.heap.previous_[d] ELSE pre.heap.previous_[s]
    IN /\ in_list(pre.heap, s) =>
            /\ heap.previous_[next] = d /\ heap.next_[previous] = d
            /\ heap.next_[d] = next /\ heap.previous_[d] = previous
            /\ heap.next_[s] = s /\ heap.previous_[s] = s
       /\ ~in_list(pre.heap, s) =>
            heap.next_[d] = d /\ heap.previous_[d] = d
       /\ TakesThePlace(d, s)

\* d stood right behind s in a list of three and was move-assigned from s:
\* two elements are left, d where s was.
C18_Witness ==
  /\ op.name = "node_move_assign"
  /\ pre.heap.next_[node_from_object(op.other)] = node_from_object(op.obj)
  /\ \E l \in LiveLists :
       /\ size(pre.heap, l) = 3
       /\ size(heap, l) = 2
       /\ node_from_object(op.obj) \in members(heap, l)

\* C19: when a list that holds elements is destroyed, its header is taken
\* out of the chain: no next_ or previous_ of a live node refers to the
\* header any more, and the former members form a closed ring whose links
\* agree in both directions, a single former member being linked to itself.
C19_DestroyedHeaderUnlinked ==
  (op.name = "destroy_list" /\ ~empty(pre.heap, op.list)) =>
    LET ring == chain(pre.heap, op.list)
        after(i) == (i % Len(ring)) + 1
    IN /\ \A n \in alive : /\ heap.next_[n] # data_(op.list)
                           /\ heap.previous_[n] # data_(op.list)
       /\ \A i \in 1..Len(ring) :
            /\ heap.next_[ring[i]] = ring[after(i)]
            /\ heap.previous_[ring[after(i)]] = ring[i]
       /\ Len(ring) = 1 => ~in_list(heap, ring[1])
       /\ Consistent(heap, alive)

\* A list of three was destroyed.
C19_Witness ==
  /\ op.name = "destroy_list"
  /\ size(pre.heap, op.list) = 3
  /\ data_(op.list) \notin alive

\* The calls that take one list.
SingleListCalls ==
  {"push_front", "push_back", "pop_front", "pop_back", "insert",
   "insert_after", "insert_range", "erase", "erase_range", "clear",
   "unique", "sort"}

\* The objects the last call was given.
Passed ==
  IF op.name = "insert_range" THEN Range(op.first) ELSE {op.obj}

\* C20: push_front, push_back, pop_front, pop_back, insert, insert_after,
\* erase, clear, unique and sort on one list, with positions and objects of
\* that list or in no list, leave the sequence and every link of every other
\* list as they were, and leave every object that is in no list and was not
\* passed to the call linked to itself.
C20_OtherListsUntouched ==
  op.name \in SingleListCalls =>
    /\ \A B \in LiveLists \ {op.list} :
         /\ forward(heap, B) = forward(pre.heap, B)
         /\ \A n \in positions(pre.heap, B) :
              /\ heap.next_[n] = pre.heap.next_[n]
              /\ heap.previous_[n] = pre.heap.previous_[n]
    /\ \A o \in LiveObjects \ Passed :
         ~in_list(pre.heap, node_from_object(o)) =>
           /\ heap.next_[node_from_object(o)] = node_from_object(o)
           /\ heap.previous_[node_from_object(o)] = node_from_object(o)

\* One list was sorted into another order while another list held an
\* element.
C20_Witness ==
  /\ op.name = "sort"
  /\ forward(heap, op.list).objs # forward(pre.heap, op.list).objs
  /\ \E B \in LiveLists \ {op.list} : size(heap, B) = 1

====
